---- MODULE Spec2Model ----
(***************************************************************************)
(* Model of the expense ledger of expense_tracker.py: the SQLite table     *)
(* "expenses", the CSV export file, and the five operations init_db,       *)
(* add_expense_auto, view_expenses, monthly_summary and export_csv.        *)
(*                                                                         *)
(* Text values whose characters matter (the date strings) are sequences of *)
(* one-character strings; amounts are REAL values counted in halves        *)
(* (101 is 50.5), so every amount and every sum of amounts of the model is *)
(* a double that is represented exactly.                                   *)
(***************************************************************************)
EXTENDS Integers, Sequences, FiniteSets, TLC

VARIABLES
    tableExists,  \* the table "expenses" exists in DB_FILE
    ledger,       \* the rows of the table, in rowid order
    seq,          \* sqlite_sequence: the largest rowid AUTOINCREMENT has given
    file,         \* the file at the export path: [exists, rows]
    connOpen,     \* the connection the last call opened is still open after it
    op,           \* the operation called last
    outcome,      \* the exit path it took
    result,       \* the rows its query fetched
    lastInsert    \* <<>>, or the arguments of the insert called last (kept by a list that follows it)

vars == <<tableExists, ledger, seq, file, connOpen, op, outcome, result, lastInsert>>

----------------------------------------------------------------------------
(* Bounds of the model. *)

MaxRecords == 2

----------------------------------------------------------------------------
(* Characters and text. *)

Digits == {"0", "1", "2", "3", "4", "5", "6", "7", "8", "9"}

DigitValue ==
    "0" :> 0 @@ "1" :> 1 @@ "2" :> 2 @@ "3" :> 3 @@ "4" :> 4 @@
    "5" :> 5 @@ "6" :> 6 @@ "7" :> 7 @@ "8" :> 8 @@ "9" :> 9

\* The code point of each character the model uses (SQLite compares TEXT
\* bytewise under the BINARY collation).
CodePoint ==
    " " :> 32 @@ "-" :> 45 @@
    "0" :> 48 @@ "1" :> 49 @@ "2" :> 50 @@ "3" :> 51 @@ "4" :> 52 @@
    "5" :> 53 @@ "6" :> 54 @@ "7" :> 55 @@ "8" :> 56 @@ "9" :> 57 @@
    "a" :> 97 @@ "d" :> 100 @@ "e" :> 101 @@ "n" :> 110 @@ "o" :> 111 @@
    "t" :> 116 @@ "x" :> 120

Min(a, b) == IF a <= b THEN a ELSE b

\* a < b as TEXT: at the first position where they differ a has the smaller
\* character, or a is a proper prefix of b.
TextLess(a, b) ==
    \E k \in 1..(Min(Len(a), Len(b)) + 1) :
        /\ \A j \in 1..(k - 1) : a[j] = b[j]
        /\ \/ k > Len(a) /\ k <= Len(b)
           \/ k <= Len(a) /\ k <= Len(b) /\ CodePoint[a[k]] < CodePoint[b[k]]

\* SQL substr(s, 1, n).
Substr(s, n) == SubSeq(s, 1, Min(n, Len(s)))

----------------------------------------------------------------------------
(* datetime.strptime(date_str, "%Y-%m-%d"). *)

IsDigitAt(s, i) == i <= Len(s) /\ s[i] \in Digits
IsCharAt(s, i, c) == i <= Len(s) /\ s[i] = c
DigitIn(s, i, lo, hi) == IsDigitAt(s, i) /\ DigitValue[s[i]] \in lo..hi

IsLeap(y) == (y % 4 = 0 /\ y % 100 # 0) \/ y % 400 = 0

DaysInMonth(y, m) ==
    IF m = 2 THEN (IF IsLeap(y) THEN 29 ELSE 28)
    ELSE IF m \in {4, 6, 9, 11} THEN 30 ELSE 31

\* %m : 1[0-2] | 0[1-9] | [1-9], tried in that order; "-" must follow.
\* The number of characters the month takes at position i, 0 when none.
MonthWidth(s, i) ==
    IF /\ \/ IsCharAt(s, i, "1") /\ DigitIn(s, i + 1, 0, 2)
          \/ IsCharAt(s, i, "0") /\ DigitIn(s, i + 1, 1, 9)
       /\ IsCharAt(s, i + 2, "-")
    THEN 2
    ELSE IF DigitIn(s, i, 1, 9) /\ IsCharAt(s, i + 1, "-") THEN 1 ELSE 0

\* %d : 3[0-1] | [1-2]\d | 0[1-9] | [1-9] | " "[1-9], the first that matches.
DayWidth(s, i) ==
    IF IsCharAt(s, i, "3") /\ DigitIn(s, i + 1, 0, 1) THEN 2
    ELSE IF DigitIn(s, i, 1, 2) /\ IsDigitAt(s, i + 1) THEN 2
    ELSE IF IsCharAt(s, i, "0") /\ DigitIn(s, i + 1, 1, 9) THEN 2
    ELSE IF DigitIn(s, i, 1, 9) THEN 1
    ELSE IF IsCharAt(s, i, " ") /\ DigitIn(s, i + 1, 1, 9) THEN 2
    ELSE 0

\* The integer a matched group denotes (int() of its text, a leading blank dropped).
GroupValue(s, i, w) ==
    IF w = 1 THEN DigitValue[s[i]]
    ELSE IF s[i] = " " THEN DigitValue[s[i + 1]]
    ELSE 10 * DigitValue[s[i]] + DigitValue[s[i + 1]]

ValueError == [ok |-> FALSE, year |-> 0, month |-> 0, day |-> 0]

\* The date strptime returns, or ValueError: the format's regular expression
\* must match at the start, nothing may remain after the match, and the
\* fields must make a date.
Strptime(s) ==
    IF ~ (/\ \A i \in 1..4 : IsDigitAt(s, i)
          /\ IsCharAt(s, 5, "-")
          /\ MonthWidth(s, 6) > 0)
    THEN ValueError
    ELSE LET mw == MonthWidth(s, 6)
             dw == DayWidth(s, 7 + mw)
         IN  IF dw = 0 \/ 7 + mw + dw # Len(s) + 1
             THEN ValueError
             ELSE LET y == 1000 * DigitValue[s[1]] + 100 * DigitValue[s[2]]
                           + 10 * DigitValue[s[3]] + DigitValue[s[4]]
                      m == GroupValue(s, 6, mw)
                      d == GroupValue(s, 7 + mw, dw)
                  IN  IF y >= 1 /\ d <= DaysInMonth(y, m)
                      THEN [ok |-> TRUE, year |-> y, month |-> m, day |-> d]
                      ELSE ValueError

----------------------------------------------------------------------------
(* The inputs the operations are called with. *)

D_2025_06_15 == <<"2", "0", "2", "5", "-", "0", "6", "-", "1", "5">>
D_2025_12_01 == <<"2", "0", "2", "5", "-", "1", "2", "-", "0", "1">>
D_2025_6_1   == <<"2", "0", "2", "5", "-", "6", "-", "1">>
D_2025_13_01 == <<"2", "0", "2", "5", "-", "1", "3", "-", "0", "1">>
D_2025_02_30 == <<"2", "0", "2", "5", "-", "0", "2", "-", "3", "0">>
D_not_a_date == <<"n", "o", "t", "-", "a", "-", "d", "a", "t", "e">>

Dates ==
    {D_2025_06_15, D_2025_12_01, D_2025_6_1,
     D_2025_13_01, D_2025_02_30, D_not_a_date}

Categories == {"Gym"}
Amounts == {-101, 600}      \* -50.5 and 300.0, in halves
Notes == {"Monthly fees"}

----------------------------------------------------------------------------
(* The table and its queries. *)

\* with connect_db() as conn: ... . The block commits or rolls back when it
\* is left and never closes the connection; no operation calls close(). The
\* connection is closed only if the runtime reclaims the object when the
\* call is left, which the code does not control: both outcomes are taken.
\* Whether the connection of a call is still open after the call.
OpenAfterWith == {TRUE, FALSE}

\* An exception raised inside the block leaves it after a rollback, again
\* without a close, and carries the frame that holds the connection: the
\* connection is open when the call is left.
OpenAfterFault == TRUE

\* CREATE TABLE IF NOT EXISTS expenses: the rows of the table afterwards.
CreateTableAlways(exists, rows) == <<>>
CreateTableIfNotExists(exists, rows) == IF exists THEN rows ELSE <<>>

RECURSIVE MaxRowid(_)
MaxRowid(rows) ==
    IF rows = <<>> THEN 0
    ELSE LET m == MaxRowid(Tail(rows))
         IN  IF Head(rows).id > m THEN Head(rows).id ELSE m

\* id INTEGER PRIMARY KEY AUTOINCREMENT: one more than the largest rowid the
\* table has ever held.
NextRowid(rows, s) == (IF MaxRowid(rows) > s THEN MaxRowid(rows) ELSE s) + 1

\* INSERT INTO expenses (expense_date, category, amount, note) VALUES (?, ?, ?, ?)
InsertRowSwapped(id, date_str, category, amount, note) ==
    [id |-> id, expense_date |-> date_str, category |-> note,
     amount |-> amount, note |-> category]
InsertRow(id, date_str, category, amount, note) ==
    [id |-> id, expense_date |-> date_str, category |-> category,
     amount |-> amount, note |-> note]

\* The orders in which a query may return `rows`.
Orders(rows) ==
    {[i \in 1..Len(rows) |-> rows[p[i]]] : p \in Permutations(1..Len(rows))}

\* SELECT id, expense_date, category, amount, note FROM expenses
\* ORDER BY expense_date DESC: the rows in any order in which no row comes
\* before a row with a greater expense_date (rows with equal expense_date
\* come in an order the query does not fix).
SelectOrderByDateDesc(rows) ==
    {r \in Orders(rows) :
        \A i, j \in 1..Len(r) :
            i < j => ~ TextLess(r[i].expense_date, r[j].expense_date)}

\* SUM(amount) over the rows of one group.
RECURSIVE GroupTotalFirst(_, _)
GroupTotalFirst(rows, month) ==
    IF rows = <<>> THEN 0
    ELSE IF Substr(Head(rows).expense_date, 7) = month THEN Head(rows).amount
    ELSE GroupTotalFirst(Tail(rows), month)
RECURSIVE GroupTotal(_, _)
GroupTotal(rows, month) ==
    IF rows = <<>> THEN 0
    ELSE (IF Substr(Head(rows).expense_date, 7) = month
          THEN Head(rows).amount ELSE 0)
         + GroupTotal(Tail(rows), month)

\* ORDER BY month DESC over the distinct months.
RECURSIVE OrderDesc(_)
OrderDesc(S) ==
    IF S = {} THEN <<>>
    ELSE LET m == CHOOSE x \in S : \A y \in S : ~ TextLess(x, y)
         IN  <<m>> \o OrderDesc(S \ {m})

\* SELECT substr(expense_date, 1, 7) AS month, SUM(amount) AS total
\* FROM expenses GROUP BY month ORDER BY month DESC
SelectMonthlyTotals(rows) ==
    LET months == OrderDesc({Substr(rows[i].expense_date, 7) : i \in 1..Len(rows)})
    IN  [k \in 1..Len(months) |->
            [month |-> months[k], total |-> GroupTotal(rows, months[k])]]

\* str() of a REAL, as csv.writer writes it: sign, integer part, one
\* fractional digit (every amount of the model is a multiple of 0.5).
FormatReal(a) ==
    LET abs == IF a < 0 THEN 0 - a ELSE a
    IN  [neg |-> a < 0, int |-> abs \div 2, frac |-> 5 * (abs % 2)]

\* SELECT expense_date, category, amount, note FROM expenses, each row as
\* csv.writer writes it. The query has no ORDER BY.
CsvRow(r) == <<r.expense_date, r.category, FormatReal(r.amount), r.note>>

Header == <<"Date", "Category", "Amount", "Note">>

\* writer.writerow([...]); writer.writerows(rows)
CsvFileDropsLast(rows) == <<Header>> \o [k \in 1..(Len(rows) - 1) |-> CsvRow(rows[k])]
CsvFile(rows) == <<Header>> \o [k \in 1..Len(rows) |-> CsvRow(rows[k])]

\* "if not rows: return" of export_csv: whether the file is opened.
ExportAlwaysWrites(rows) == TRUE
ExportWrites(rows) == rows # <<>>

NoFile == [exists |-> FALSE, rows |-> <<>>]
StaleFile == [exists |-> TRUE, rows |-> <<<<"stale">>>>]

----------------------------------------------------------------------------
(* The state machine. *)

Init ==
    /\ tableExists = FALSE
    /\ ledger = <<>>
    /\ seq = 0
    /\ file \in {NoFile, StaleFile}
    /\ connOpen = FALSE
    /\ op = "none"
    /\ outcome = "none"
    /\ result = <<>>
    /\ lastInsert = <<>>

init_db ==
    /\ tableExists' = TRUE
    /\ ledger' = CreateTableIfNotExists(tableExists, ledger)
    /\ seq' = IF tableExists THEN seq ELSE 0
    /\ op' = "init_db"
    /\ outcome' = "ok"
    /\ result' = <<>>
    /\ lastInsert' = <<>>
    /\ UNCHANGED file
    /\ connOpen' \in OpenAfterWith

add_expense_auto ==
    \E date_str \in Dates, category \in Categories, amount \in Amounts, note \in Notes :
        /\ op' = "add_expense_auto"
        /\ result' = <<>>
        /\ lastInsert' = <<[date_str |-> date_str, category |-> category,
                            amount |-> amount, note |-> note,
                            before |-> Len(ledger)]>>
        /\ UNCHANGED <<tableExists, file>>
        /\ IF ~ Strptime(date_str).ok
           THEN /\ outcome' = "InvalidDate"
                /\ connOpen' = FALSE
                /\ UNCHANGED <<ledger, seq>>
           ELSE IF ~ tableExists
           THEN /\ outcome' = "fault"
                /\ connOpen' = OpenAfterFault
                /\ UNCHANGED <<ledger, seq>>
           ELSE /\ Len(ledger) < MaxRecords
                /\ outcome' = "ok"
                /\ seq' = NextRowid(ledger, seq)
                /\ ledger' = Append(ledger,
                       InsertRow(NextRowid(ledger, seq), date_str, category, amount, note))
                /\ connOpen' \in OpenAfterWith

view_expenses ==
    /\ op' = "view_expenses"
    /\ lastInsert' = IF op = "add_expense_auto" THEN lastInsert ELSE <<>>
    /\ UNCHANGED <<tableExists, ledger, seq, file>>
    /\ IF ~ tableExists
       THEN /\ outcome' = "fault"
            /\ result' = <<>>
            /\ connOpen' = OpenAfterFault
       ELSE \E rows \in SelectOrderByDateDesc(ledger) :
               /\ result' = rows
               /\ outcome' = IF rows = <<>> THEN "empty" ELSE "ok"
               /\ connOpen' \in OpenAfterWith

monthly_summary ==
    /\ op' = "monthly_summary"
    /\ lastInsert' = <<>>
    /\ UNCHANGED <<tableExists, ledger, seq, file>>
    /\ IF ~ tableExists
       THEN /\ outcome' = "fault"
            /\ result' = <<>>
            /\ connOpen' = OpenAfterFault
       ELSE LET rows == SelectMonthlyTotals(ledger)
            IN  /\ result' = rows
                /\ outcome' = IF rows = <<>> THEN "empty" ELSE "ok"
                /\ connOpen' \in OpenAfterWith

export_csv ==
    /\ op' = "export_csv"
    /\ lastInsert' = <<>>
    /\ result' = <<>>
    /\ UNCHANGED <<tableExists, ledger, seq>>
    /\ IF ~ tableExists
       THEN /\ outcome' = "fault"
            /\ connOpen' = OpenAfterFault
            /\ UNCHANGED file
       ELSE \E rows \in Orders(ledger) :
               /\ IF ExportWrites(rows)
                  THEN /\ file' = [exists |-> TRUE, rows |-> CsvFile(rows)]
                       /\ outcome' = "ok"
                  ELSE /\ outcome' = "NoDataToExport"
                       /\ UNCHANGED file
               /\ connOpen' \in OpenAfterWith

Next ==
    \/ init_db
    \/ add_expense_auto
    \/ view_expenses
    \/ monthly_summary
    \/ export_csv

Spec == Init /\ [][Next]_vars

----------------------------------------------------------------------------
(* What the claims speak of. *)

\* s has the strict zero-padded form YYYY-MM-DD and denotes a real date.
StrictValidDate(s) ==
    /\ Len(s) = 10
    /\ \A i \in {1, 2, 3, 4, 6, 7, 9, 10} : s[i] \in Digits
    /\ s[5] = "-" /\ s[8] = "-"
    /\ LET y == 1000 * DigitValue[s[1]] + 100 * DigitValue[s[2]]
                + 10 * DigitValue[s[3]] + DigitValue[s[4]]
           m == 10 * DigitValue[s[6]] + DigitValue[s[7]]
           d == 10 * DigitValue[s[9]] + DigitValue[s[10]]
       IN  m \in 1..12 /\ d \in 1..DaysInMonth(y, m)

\* The calendar date a stored expense_date denotes, as one number.
CalendarDay(s) ==
    LET t == Strptime(s) IN 10000 * t.year + 100 * t.month + t.day

\* The calendar month a stored month prefix (7 characters) denotes.
CalendarMonth(m) ==
    100 * (1000 * DigitValue[m[1]] + 100 * DigitValue[m[2]]
           + 10 * DigitValue[m[3]] + DigitValue[m[4]])
    + (IF m[7] \in Digits THEN 10 * DigitValue[m[6]] + DigitValue[m[7]]
       ELSE DigitValue[m[6]])

\* The sum of amount over the records of the ledger at the indices I.
RECURSIVE AmountSum(_)
AmountSum(I) ==
    IF I = {} THEN 0
    ELSE LET i == CHOOSE x \in I : TRUE
         IN  ledger[i].amount + AmountSum(I \ {i})

RECURSIVE TotalSum(_, _)
TotalSum(rows, k) ==
    IF k = 0 THEN 0 ELSE rows[k].total + TotalSum(rows, k - 1)

\* The amount a written Amount field denotes.
RealOf(t) == (IF t.neg THEN 0 - 1 ELSE 1) * (2 * t.int + t.frac \div 5)

Reads == {"view_expenses", "monthly_summary", "export_csv"}

----------------------------------------------------------------------------
(* The claims. *)

\* C1: an insert whose date is not a strict zero-padded YYYY-MM-DD string
\* denoting a real date signals InvalidDate and leaves the number of records
\* as it was.
C1_DateRejection ==
    (/\ op = "add_expense_auto"
     /\ tableExists
     /\ ~ StrictValidDate(lastInsert[1].date_str))
    => /\ outcome = "InvalidDate"
       /\ Len(ledger) = lastInsert[1].before

\* C2: the expense_date of every record of the ledger is a strict YYYY-MM-DD
\* string denoting a real date.
C2_StoredDatesValid ==
    \A i \in 1..Len(ledger) : StrictValidDate(ledger[i].expense_date)

\* C3: a list that follows the insert of a valid (date, category, amount,
\* note) returns one more record than the ledger held before the insert,
\* among them a record with the inserted fields whose id no other record has.
C3_RoundTrip ==
    (/\ op = "view_expenses"
     /\ Len(lastInsert) = 1
     /\ tableExists
     /\ StrictValidDate(lastInsert[1].date_str))
    => /\ outcome = "ok"
       /\ Len(result) = lastInsert[1].before + 1
       /\ \E i \in 1..Len(result) :
             /\ result[i].expense_date = lastInsert[1].date_str
             /\ result[i].category = lastInsert[1].category
             /\ result[i].amount = lastInsert[1].amount
             /\ result[i].note = lastInsert[1].note
             /\ \A j \in 1..Len(result) : j # i => result[j].id # result[i].id

C3_Witness ==
    /\ op = "view_expenses"
    /\ Len(lastInsert) = 1
    /\ StrictValidDate(lastInsert[1].date_str)
    /\ lastInsert[1].before = 1
    /\ outcome = "ok"
    /\ Len(result) = 2

\* C4: the monthly aggregation returns one (month, total) pair for each
\* distinct 7-character prefix of an expense_date of the ledger, each total is
\* the sum of amount over the records with that prefix, and the totals add up
\* to the sum of amount over all records.
C4_Aggregation ==
    (op = "monthly_summary" /\ outcome \in {"ok", "empty"})
    => LET prefixes == {Substr(ledger[i].expense_date, 7) : i \in 1..Len(ledger)}
       IN  /\ Len(result) = Cardinality(prefixes)
           /\ {result[k].month : k \in 1..Len(result)} = prefixes
           /\ \A k \in 1..Len(result) :
                 result[k].total =
                     AmountSum({i \in 1..Len(ledger) :
                                   Substr(ledger[i].expense_date, 7) = result[k].month})
           /\ TotalSum(result, Len(result)) = AmountSum(1..Len(ledger))

C4_Witness ==
    /\ op = "monthly_summary"
    /\ outcome = "ok"
    /\ Len(ledger) = 2
    /\ Len(result) = 1
    /\ ledger[1].amount # ledger[2].amount
    /\ result[1].total = ledger[1].amount + ledger[2].amount

\* C5: the list has no record before a record with a later date, and the
\* monthly aggregation has no month before a later month.
C5_Ordering ==
    /\ (op = "view_expenses" /\ outcome = "ok")
       => \A i, j \in 1..Len(result) :
             i < j => CalendarDay(result[i].expense_date)
                          >= CalendarDay(result[j].expense_date)
    /\ (op = "monthly_summary" /\ outcome = "ok")
       => \A i, j \in 1..Len(result) :
             i < j => CalendarMonth(result[i].month) >= CalendarMonth(result[j].month)

\* C6: two lists of the same ledger contents, one after the other, return
\* the records, those with equal expense_date included, in the same order
\* (stated for ledgers whose dates are all strict YYYY-MM-DD dates).
C6_TieBreakDeterminism ==
    [][(/\ op = "view_expenses" /\ outcome = "ok"
        /\ op' = "view_expenses" /\ outcome' = "ok"
        /\ ledger' = ledger
        /\ \A i \in 1..Len(ledger) : StrictValidDate(ledger[i].expense_date))
       => result' = result]_vars

\* C7: every step keeps every record of the ledger with its id and fields;
\* only a successful insert changes the ledger, by one record whose id is
\* greater than every id of the ledger; init_db, list, monthly aggregation
\* and export leave the ledger as it was.
C7_AppendOnly ==
    [][/\ Len(ledger') \in {Len(ledger), Len(ledger) + 1}
       /\ \A i \in 1..Len(ledger) : ledger'[i] = ledger[i]
       /\ Len(ledger') = Len(ledger) + 1
          => /\ op' = "add_expense_auto" /\ outcome' = "ok"
             /\ \A i \in 1..Len(ledger) : ledger'[Len(ledger')].id > ledger[i].id
       /\ op' \in Reads \cup {"init_db"} => ledger' = ledger
       /\ (op' = "add_expense_auto" /\ outcome' # "ok") => ledger' = ledger]_vars

C7_Witness ==
    /\ op = "init_db"
    /\ Len(ledger) = 2
    /\ ledger[2].id > ledger[1].id

\* C8: an export of a ledger that is not empty writes the header row and one
\* data row for each record, every record in exactly one row that carries its
\* expense_date, category, amount and note.
C8_ExportComplete ==
    (op = "export_csv" /\ tableExists /\ ledger # <<>>)
    => /\ outcome = "ok"
       /\ file.exists
       /\ Len(file.rows) = Len(ledger) + 1
       /\ file.rows[1] = Header
       /\ \E p \in Permutations(1..Len(ledger)) :
             \A k \in 1..Len(ledger) :
                 LET row == file.rows[k + 1]
                     r == ledger[p[k]]
                 IN  /\ Len(row) = 4
                     /\ row[1] = r.expense_date
                     /\ row[2] = r.category
                     /\ RealOf(row[3]) = r.amount
                     /\ row[4] = r.note

C8_Witness ==
    /\ op = "export_csv"
    /\ outcome = "ok"
    /\ Len(ledger) = 2
    /\ ledger[1].amount # ledger[2].amount
    /\ Len(file.rows) = 3

\* C9: on an initialized ledger with no records, list and monthly
\* aggregation report the empty result, export reports NoDataToExport and
\* leaves the file at its path as it was, and none of them changes the ledger.
C9_EmptyLedger ==
    [][(tableExists /\ ledger = <<>>)
       => /\ op' \in {"view_expenses", "monthly_summary"}
             => outcome' = "empty" /\ result' = <<>>
          /\ op' = "export_csv" => outcome' = "NoDataToExport" /\ file' = file
          /\ op' \in Reads => ledger' = ledger]_vars

C9_Witness ==
    /\ op = "export_csv"
    /\ outcome = "NoDataToExport"
    /\ tableExists
    /\ ledger = <<>>
    /\ file = StaleFile

\* C10: no connection is open after an operation has returned.
C10_NoOpenConnection == connOpen = FALSE

====
